---- MODULE Spec2Model ----
(***************************************************************************)
(* Fact extraction of kuk/analyze-ods-jobs (src/main.py): the salary-range *)
(* ("vilka") normalisation and validity filter, the four extractors, the   *)
(* regex e-mail source of CompanyExtractor and the Extractor facade.       *)
(*                                                                         *)
(* A text is a sequence of lines joined by "\n".  yargy's Parser.findall   *)
(* and re.finditer are library code: a line records what they find in it   *)
(* (offset, length, interpreted fact), parsed by hand from the grammars of *)
(* main.py; findall returns the hits of its grammar left to right.  A line *)
(* break is an EOL token to yargy and outside the e-mail character classes,*)
(* so no hit spans two lines.                                              *)
(*                                                                         *)
(* Amounts are fixed-point numbers with three decimals (Unit = 1.0), which *)
(* is exact for the integers and for the "a.b" floats of the FLOAT rule    *)
(* with up to three fractional digits.  Character strings the code slices  *)
(* and lower-cases are sequences of one-character strings.  Russian words   *)
(* (line names, city names) are written in Latin transliteration.          *)
(***************************************************************************)
EXTENDS Integers, Sequences, FiniteSets, TLC

VARIABLES
    text,      \* the input text: a sequence of lines
    entry,     \* the callable invoked on it
    pc,        \* the loop the call is in
    i,         \* index of the next item of that loop
    vilkaFact, \* the local `fact` of VilkaExtractor.__call__: <<>> while unbound
    stream,    \* what each extractor has yielded so far
    out,       \* what Extractor.__call__ has yielded so far
    nEmail,    \* how many of stream.company came from the e-mail loop
    renorm,    \* norm_vilka applied again to the yielded salary ranges
    report,    \* what the reporting code has computed from the matches
    shared,    \* the attributes of the Extractor instance the calls share
    suspended  \* the locals of a second call that is suspended, <<>> if none

vars ==
    <<text, entry, pc, i, vilkaFact, stream, out, nEmail, renorm, vilkaFact, report,
      shared, suspended>>

\* ------------------------------------------------------------ bounds

MaxSegs == 3

MaxCompanySegs == 2

MaxCallSegs == 1

MaxReportSegs == 3

MaxWorkerSegs == 1

\* ------------------------------------------------------- constants

None == "None"

NET == "net"

GROSS == "gross"

RUB == "rub"

USD == "usd"

EUR == "eur"

GBP == "gbp"

K == 1000

M == 1000000

\* Bound.scale is None when no scale word matched; Python's `or` and `if`
\* treat None as they would 0, and SCALES maps to K and M only.
NoScale == 0

\* 1.0 in the fixed-point representation of amounts
Unit == 10 * 100

\* Python's numbers do not overflow and TLC's integers do: a number is kept
\* as two digits hi, lo in base 10^6, its value being hi * 10^6 + lo.
Base == 1000 * 1000

Num(n) == [hi |-> n \div Base, lo |-> n % Base]

\* a * factor, for a factor that divides Base or is Base
Times(a, factor) ==
    LET q == Base \div factor
    IN  [hi |-> a.hi * factor + a.lo \div q, lo |-> (a.lo % q) * factor]

\* a < b
Less(a, b) == a.hi < b.hi \/ (a.hi = b.hi /\ a.lo < b.lo)

\* a <= b
Leq(a, b) == ~Less(b, a)

VILKA == "vilka"

LOCATION == "location"

POSITION == "position"

COMPANY == "company"

\* find_emails is not a Match type: the name of the regex source of a hit
EMAIL == "email"

MSK == "Moskva"

SPB == "Sankt-Peterburg"

INTERN == "intern"

JUNIOR == "junior"

MIDDLE == "middle"

SENIOR == "senior"

LEAD == "lead"

\* OTHER of main.py: the word is reserved in TLA+
Other == "other"

UNKNOWN == "unknown"

\* ------------------------------------------------------- norm_vilka

\* a or b, for values that are None or a non-empty string
Or(a, b) == IF a # None THEN a ELSE b

\* a or b, for scales
OrScale(a, b) == IF a # NoScale THEN a ELSE b

NormVilka(min, max, currency, tax) ==
    [min |-> min, max |-> max, currency |-> currency, tax |-> tax]

norm_vilka_unbounded(record) ==
    LET currency == Or(Or(record.min.currency, record.max.currency), RUB)
        tax      == Or(Or(record.min.tax, record.max.tax), NET)
        scale    == OrScale(record.min.scale, record.max.scale)
        min      == record.min.amount
        max      == record.max.amount
    IN  IF scale # NoScale
        THEN NormVilka(Times(min, scale), Times(max, scale), currency, tax)
        ELSE IF Leq(Num(20 * Unit), min)
             THEN NormVilka(Times(min, K), Times(max, K), currency, tax)
             ELSE NormVilka(min, max, currency, tax)

norm_vilka_max_first(record) ==
    LET currency == Or(Or(record.max.currency, record.min.currency), RUB)
        tax      == Or(Or(record.max.tax, record.min.tax), NET)
        scale    == OrScale(record.min.scale, record.max.scale)
        min      == record.min.amount
        max      == record.max.amount
    IN  IF scale # NoScale
        THEN NormVilka(Times(min, scale), Times(max, scale), currency, tax)
        ELSE IF Leq(Num(20 * Unit), min) /\ Leq(min, Num(600 * Unit))
             THEN NormVilka(Times(min, K), Times(max, K), currency, tax)
             ELSE NormVilka(min, max, currency, tax)

norm_vilka_max_scale_first(record) ==
    LET currency == Or(Or(record.min.currency, record.max.currency), RUB)
        tax      == Or(Or(record.min.tax, record.max.tax), NET)
        scale    == OrScale(record.max.scale, record.min.scale)
        min      == record.min.amount
        max      == record.max.amount
    IN  IF scale # NoScale
        THEN NormVilka(Times(min, scale), Times(max, scale), currency, tax)
        ELSE IF Leq(Num(20 * Unit), min) /\ Leq(min, Num(600 * Unit))
             THEN NormVilka(Times(min, K), Times(max, K), currency, tax)
             ELSE NormVilka(min, max, currency, tax)

norm_vilka_own_scale(record) ==
    LET currency == Or(Or(record.min.currency, record.max.currency), RUB)
        tax      == Or(Or(record.min.tax, record.max.tax), NET)
        smin     == IF record.min.scale # NoScale THEN record.min.scale ELSE 1
        smax     == IF record.max.scale # NoScale THEN record.max.scale ELSE 1
        min      == record.min.amount
        max      == record.max.amount
    IN  IF record.min.scale # NoScale \/ record.max.scale # NoScale
        THEN NormVilka(Times(min, smin), Times(max, smax), currency, tax)
        ELSE IF Leq(Num(20 * Unit), min) /\ Leq(min, Num(600 * Unit))
             THEN NormVilka(Times(min, K), Times(max, K), currency, tax)
             ELSE NormVilka(min, max, currency, tax)

norm_vilka(record) ==
    LET currency == Or(Or(record.min.currency, record.max.currency), RUB)
        tax      == Or(Or(record.min.tax, record.max.tax), NET)
        scale    == OrScale(record.min.scale, record.max.scale)
        min      == record.min.amount
        max      == record.max.amount
    IN  IF scale # NoScale
        THEN NormVilka(Times(min, scale), Times(max, scale), currency, tax)
        ELSE IF Leq(Num(20 * Unit), min) /\ Leq(min, Num(600 * Unit))
             THEN NormVilka(Times(min, K), Times(max, K), currency, tax)
             ELSE NormVilka(min, max, currency, tax)

\* ------------------------------------------------------ is_ok_vilka

is_ok_vilka_no_order(record) ==
    IF record.currency = RUB
    THEN IF Leq(Num(20000 * Unit), record.min) /\ Leq(record.max, Num(600000 * Unit))
         THEN "True" ELSE "False"
    ELSE IF Leq(Num(1000 * Unit), record.min) /\ Leq(record.max, Num(10000 * Unit))
         THEN "True" ELSE "False"

is_ok_vilka_low_window(record) ==
    IF Leq(record.max, record.min)
    THEN "None"
    ELSE IF record.currency = RUB
         THEN IF Leq(Num(20000 * Unit), record.min) /\ Leq(record.max, Num(600000 * Unit))
              THEN "True" ELSE "False"
         ELSE IF Leq(Num(100 * Unit), record.min) /\ Leq(record.max, Num(10000 * Unit))
              THEN "True" ELSE "False"

is_ok_vilka_no_gbp(record) ==
    IF Leq(record.max, record.min)
    THEN "None"
    ELSE IF record.currency = RUB
         THEN IF Leq(Num(20000 * Unit), record.min) /\ Leq(record.max, Num(600000 * Unit))
              THEN "True" ELSE "False"
         ELSE IF record.currency \in {USD, EUR}
              THEN IF Leq(Num(1000 * Unit), record.min) /\ Leq(record.max, Num(10000 * Unit))
                   THEN "True" ELSE "False"
              ELSE "UnboundLocalError"

\* The verdict is what the call returns ("None", "True", "False") or the
\* exception it raises: with a currency outside the four, the locals min and
\* max are never bound.
is_ok_vilka(record) ==
    IF Leq(record.max, record.min)
    THEN "None"
    ELSE IF record.currency = RUB
         THEN IF Leq(Num(20000 * Unit), record.min) /\ Leq(record.max, Num(600000 * Unit))
              THEN "True" ELSE "False"
         ELSE IF record.currency \in {USD, EUR, GBP}
              THEN IF Leq(Num(1000 * Unit), record.min) /\ Leq(record.max, Num(10000 * Unit))
                   THEN "True" ELSE "False"
              ELSE "UnboundLocalError"

\* Python truth of a verdict
Truthy(verdict) == verdict = "True"

\* ----------------------------------------------------------- lines

\* A hit is what one grammar (or the e-mail regex) finds inside a line: its
\* offset in the line, its length and its interpreted value.
Hit(parser, off, len, value) ==
    [parser |-> parser, off |-> off, len |-> len, value |-> value]

Line(name, len, hits) == [name |-> name, len |-> len, hits |-> hits]

Bound(amount, currency, scale, tax) ==
    [amount |-> Num(amount * Unit), currency |-> currency, scale |-> scale, tax |-> tax]

Vilka(min, max) == [min |-> min, max |-> max]

Location(city, metro, remote) == [city |-> city, metro |-> metro, remote |-> remote]

Position(grade, title) == [grade |-> grade, title |-> title]

LocationFactMetroInMsk(branch, value) ==
    IF branch = "CITY"
    THEN Location(value, None, None)
    ELSE IF branch = "METRO"
         THEN Location(MSK, value, None)
         ELSE Location(None, None, "True")

\* The Location that LOCATION interprets from a match of one of its three
\* branches: CITY sets city, METRO sets metro, REMOTE sets remote to True
LocationFact(branch, value) ==
    IF branch = "CITY"
    THEN Location(value, None, None)
    ELSE IF branch = "METRO"
         THEN Location(None, value, None)
         ELSE Location(None, None, "True")

\* A line that is one salary range, as VILKA interprets it
VilkaLine(name, len, min, max) ==
    Line(name, len, <<Hit(VILKA, 0, len, Vilka(min, max))>>)

\* Lines of VILKA_TESTS and one pair of working hours
VilkaLines ==
    { VilkaLine("ot 60K do 300K gryaznymi", 23,
                Bound(60, None, K, None), Bound(300, None, K, GROSS)),
      VilkaLine("$5k-$8k", 7,
                Bound(5, USD, K, None), Bound(8, USD, K, None)),
      VilkaLine("150-250 t.r.", 12,
                Bound(150, None, NoScale, None), Bound(250, RUB, K, None)),
      VilkaLine("40 - 100", 8,
                Bound(40, None, NoScale, None), Bound(100, None, NoScale, None)),
      VilkaLine("ot 200K do 1M rublej", 20,
                Bound(200, None, K, None), Bound(1, RUB, M, None)),
      VilkaLine("10 - 18", 7,
                Bound(10, None, NoScale, None), Bound(18, None, NoScale, None)) }

\* One entry of CITIES, of METROS and of REMOTE
LocationLines ==
    { Line("Moskva", 6, <<Hit(LOCATION, 0, 6, LocationFact("CITY", MSK))>>),
      Line("Dinamo", 6, <<Hit(LOCATION, 0, 6, LocationFact("METRO", "Dinamo"))>>),
      Line("Udalenno", 8, <<Hit(LOCATION, 0, 8, LocationFact("REMOTE", None))>>) }

\* One entry of GRADES and of TITLES
PositionLines ==
    { Line("Senior", 6, <<Hit(POSITION, 0, 6, Position("senior", None))>>),
      Line("Data Scientist", 14, <<Hit(POSITION, 0, 14, Position(None, "DS"))>>) }

\* A line with hits of two grammars
MixedLine ==
    Line("Senior Data Scientist, Moskva", 29,
         <<Hit(POSITION, 0, 6, Position("senior", None)),
           Hit(POSITION, 7, 14, Position(None, "DS")),
           Hit(LOCATION, 23, 6, LocationFact("CITY", MSK))>>)

yandex_team_ru == <<"y", "a", "n", "d", "e", "x", "-", "t", "e", "a", "m", ".", "r", "u">>

tinkoff_ru == <<"t", "i", "n", "k", "o", "f", "f", ".", "r", "u">>

\* The distinct values of COMPANIES
COMPANIES_values ==
    { <<"a", "l", "f", "a", "b", "a", "n", "k", ".", "r", "u">>,
      <<"a", "v", "i", "t", "o", ".", "r", "u">>,
      <<"h", "h", ".", "r", "u">>,
      <<"j", "o", "o", "m", ".", "r", "u">>,
      <<"l", "e", "n", "t", "a", ".", "r", "u">>,
      <<"l", "e", "r", "o", "y", "m", "e", "r", "l", "i", "n", ".", "r", "u">>,
      <<"m", "t", "s", ".", "r", "u">>,
      <<"o", "p", "e", "n", ".", "r", "u">>,
      <<"o", "z", "o", "n", ".", "r", "u">>,
      <<"r", "a", "i", "f", "f", "e", "i", "s", "e", "n", ".", "r", "u">>,
      <<"s", "b", "e", "r", "b", "a", "n", "k", ".", "r", "u">>,
      tinkoff_ru,
      <<"x", "5", ".", "r", "u">>,
      yandex_team_ru }

\* A line that is one company name of six characters ("Yandeks", "Avito" ...
\* differ in length; the length plays no part in what the code does with it)
CompanyLine(value) == Line("company name", 6, <<Hit(COMPANY, 0, 6, value)>>)

\* An e-mail address local@domain alone on a line.  The token "tinkoff" inside
\* an address is also a hit of COMPANY (key 'Tinkoff'): yargy's tokenizer
\* splits the address at "@" and ".".
EmailLine(local, pre, name, tld) ==
    LET address == local \o <<"@">> \o pre \o name \o <<".">> \o tld
        inside  == IF name = <<"t", "i", "n", "k", "o", "f", "f">>
                   THEN <<Hit(COMPANY, Len(local) + 1 + Len(pre), 7, tinkoff_ru)>>
                   ELSE <<>>
    IN  Line("e-mail", Len(address),
             <<Hit(EMAIL, 0, Len(address), address)>> \o inside)

www == <<"w", "w", "w", ".">>

EmailPrefixes == { <<>>, www, <<"W", "W", "W", ".">>, www \o www }

EmailNames ==
    { <<"g", "m", "a", "i", "l">>, <<"G", "M", "a", "i", "l">>,
      <<"a", "c", "m", "e">> }

EmailTlds == { <<"c", "o", "m">>, <<"i", "o">> }

EmailLines ==
    { EmailLine(<<"h", "r">>, pre, name, tld) :
        pre \in EmailPrefixes, name \in EmailNames, tld \in EmailTlds }

NoiseLine == Line("ischem", 4, <<>>)

\* The lines of the texts the facade is run on
Vocabulary ==
    VilkaLines \cup LocationLines \cup PositionLines
    \cup { CompanyLine(yandex_team_ru),
           EmailLine(<<"h", "r">>, <<>>, <<"t", "i", "n", "k", "o", "f", "f">>, <<"r", "u">>),
           EmailLine(<<"f", "o", "o">>, <<>>, <<"G", "M", "a", "i", "l">>, <<"c", "o", "m">>),
           MixedLine, NoiseLine }

\* The lines of the texts CompanyExtractor alone is run on
CompanyVocabulary == EmailLines \cup { CompanyLine(v) : v \in COMPANIES_values }

\* A grade word of six characters at the start of a line
GradeHit(grade) == Hit(POSITION, 0, 6, Position(grade, None))

\* A range "lo-hik" of eight characters: the scale word is on the max bound
RangeHit(off, lo, hi) ==
    Hit(VILKA, off, 8, Vilka(Bound(lo, None, NoScale, None), Bound(hi, None, K, None)))

\* The lines of the messages the reporting code is run on: grades, salary
\* ranges (two of them with the same min), a grade followed by a range,
\* cities, a metro station, remote work, and an address
ReportVocabulary ==
    { Line("Junior", 6, <<GradeHit(JUNIOR)>>),
      Line("Senior", 6, <<GradeHit(SENIOR)>>),
      Line("100-150k", 8, <<RangeHit(0, 100, 150)>>),
      Line("100-200k", 8, <<RangeHit(0, 100, 200)>>),
      Line("300-400k", 8, <<RangeHit(0, 300, 400)>>),
      Line("Junior 100-150k", 15, <<GradeHit(JUNIOR), RangeHit(7, 100, 150)>>),
      Line("Senior 100-150k", 15, <<GradeHit(SENIOR), RangeHit(7, 100, 150)>>),
      Line("Junior 300-400k", 15, <<GradeHit(JUNIOR), RangeHit(7, 300, 400)>>),
      Line("Senior 300-400k", 15, <<GradeHit(SENIOR), RangeHit(7, 300, 400)>>),
      Line("Moskva", 6, <<Hit(LOCATION, 0, 6, LocationFact("CITY", MSK))>>),
      Line("Sankt-Peterburg", 15, <<Hit(LOCATION, 0, 15, LocationFact("CITY", SPB))>>),
      Line("Minsk", 5, <<Hit(LOCATION, 0, 5, LocationFact("CITY", "Minsk"))>>),
      Line("Dinamo", 6, <<Hit(LOCATION, 0, 6, LocationFact("METRO", "Dinamo"))>>),
      Line("Udalenno", 8, <<Hit(LOCATION, 0, 8, LocationFact("REMOTE", None))>>),
      EmailLine(<<"h", "r">>, <<>>, <<"t", "i", "n", "k", "o", "f", "f">>, <<"r", "u">>) }

SeqsUpTo(S, n) == UNION { [1..k -> S] : k \in 0..n }

\* --------------------------------------------------- findall, finditer

\* The hits of one grammar in a line that starts at offset base
LineMatches(parser, line, base) ==
    LET hs == SelectSeq(line.hits, LAMBDA h : h.parser = parser)
    IN  [n \in 1..Len(hs) |->
            [span |-> <<base + hs[n].off, base + hs[n].off + hs[n].len>>,
             fact |-> hs[n].value]]

RECURSIVE MatchesFrom(_, _, _, _)
MatchesFrom(parser, t, k, base) ==
    IF k > Len(t)
    THEN <<>>
    ELSE LineMatches(parser, t[k], base)
         \o MatchesFrom(parser, t, k + 1, base + t[k].len + 1)

\* Parser(grammar).findall(text): the matches left to right
findall(parser, t) == MatchesFrom(parser, t, 1, 0)

\* find_emails(text): the spans of the regex matches, left to right
find_emails(t) ==
    LET ms == MatchesFrom(EMAIL, t, 1, 0)
    IN  [n \in 1..Len(ms) |-> ms[n].span]

\* text[start:stop], for the span of an e-mail match
Slice(t, span) ==
    LET ms == MatchesFrom(EMAIL, t, 1, 0)
    IN  (CHOOSE m \in { ms[n] : n \in 1..Len(ms) } : m.span = span).fact

\* ------------------------------------------------- e-mail, domain

RECURSIVE IndexOf(_, _, _)
IndexOf(s, c, k) ==
    IF k > Len(s) THEN 0 ELSE IF s[k] = c THEN k ELSE IndexOf(s, c, k + 1)

\* name, domain = email.split('@', 1)
email_domain(email) == SubSeq(email, IndexOf(email, "@", 1) + 1, Len(email))

UpperLower ==
    { <<"A", "a">>, <<"B", "b">>, <<"C", "c">>, <<"D", "d">>, <<"E", "e">>,
      <<"F", "f">>, <<"G", "g">>, <<"H", "h">>, <<"I", "i">>, <<"J", "j">>,
      <<"K", "k">>, <<"L", "l">>, <<"M", "m">>, <<"N", "n">>, <<"O", "o">>,
      <<"P", "p">>, <<"Q", "q">>, <<"R", "r">>, <<"S", "s">>, <<"T", "t">>,
      <<"U", "u">>, <<"V", "v">>, <<"W", "w">>, <<"X", "x">>, <<"Y", "y">>,
      <<"Z", "z">> }

IsUpper(c) == \E p \in UpperLower : p[1] = c

LowerChar(c) == IF IsUpper(c) THEN (CHOOSE p \in UpperLower : p[1] = c)[2] ELSE c

\* str.lower()
Lower(s) == [n \in 1..Len(s) |-> LowerChar(s[n])]

\* str.startswith
StartsWith(s, prefix) ==
    Len(s) >= Len(prefix) /\ SubSeq(s, 1, Len(prefix)) = prefix

GENERIC_EMAIL_DOMAINS ==
    { <<"g", "m", "a", "i", "l", ".", "c", "o", "m">>,
      <<"m", "a", "i", "l", ".", "r", "u">>,
      <<"y", "a", "n", "d", "e", "x", ".", "r", "u">>,
      <<"m", "a", "c", ".", "c", "o", "m">> }

norm_domain_keeps_case(value) ==
    IF StartsWith(value, www)
    THEN SubSeq(value, 5, Len(value))
    ELSE value

norm_domain(value) ==
    LET lowered == Lower(value)
    IN  IF StartsWith(lowered, www)
        THEN SubSeq(lowered, 5, Len(lowered))
        ELSE lowered


\* ------------------------------------------------------- extractors

MatchFromTextStart(start, stop, type, value) ==
    [start |-> 0, stop |-> stop, type |-> type, value |-> value]

Match(start, stop, type, value) ==
    [start |-> start, stop |-> stop, type |-> type, value |-> value]

YieldInFront(yielded, matches) == matches \o yielded

\* What a generator has yielded, in the order of its yields
Yield(yielded, matches) == yielded \o matches

VilkaYieldsUnfiltered(match) ==
    <<Match(match.span[1], match.span[2], VILKA, norm_vilka(match.fact))>>

\* One iteration of the loop of VilkaExtractor.__call__: what it yields
VilkaYields(match) ==
    LET fact == norm_vilka(match.fact)
    IN  IF Truthy(is_ok_vilka(fact))
        THEN <<Match(match.span[1], match.span[2], VILKA, fact)>>
        ELSE <<>>

\* One iteration of the loop of LocationExtractor.__call__
LocationYields(match) ==
    <<Match(match.span[1], match.span[2], LOCATION, match.fact)>>

\* One iteration of the loop of PositionExtractor.__call__
PositionYields(match) ==
    <<Match(match.span[1], match.span[2], POSITION, match.fact)>>

\* One iteration of the first loop of CompanyExtractor.__call__
EmailYields(t, span) ==
    LET value == norm_domain(email_domain(Slice(t, span)))
    IN  IF value \notin GENERIC_EMAIL_DOMAINS
        THEN <<Match(span[1], span[2], COMPANY, value)>>
        ELSE <<>>

\* One iteration of the second loop of CompanyExtractor.__call__
CompanyYields(match) ==
    <<Match(match.span[1], match.span[2], COMPANY, match.fact)>>

\* self.extractors
extractors == <<VILKA, LOCATION, POSITION, COMPANY>>

RECURSIVE InsertByStart(_, _)
InsertByStart(yielded, match) ==
    IF yielded = <<>> \/ yielded[Len(yielded)].start <= match.start
    THEN Append(yielded, match)
    ELSE Append(InsertByStart(SubSeq(yielded, 1, Len(yielded) - 1), match),
                yielded[Len(yielded)])

RECURSIVE ExtractorYieldByStart(_, _)
ExtractorYieldByStart(yielded, matches) ==
    IF matches = <<>>
    THEN yielded
    ELSE ExtractorYieldByStart(InsertByStart(yielded, Head(matches)), Tail(matches))

\* Extractor.__call__ yields each match of the running extractor as it comes
ExtractorYield(yielded, matches) == yielded \o matches

\* Where control goes when the extractor e returns
AfterReturn(e) ==
    LET k == CHOOSE n \in 1..Len(shared.extractors) : shared.extractors[n] = e
    IN  IF entry = "Extractor" /\ k < Len(shared.extractors)
        THEN shared.extractors[k + 1]
        ELSE "done"

\* An extractor yields; when the facade is the caller, it yields in turn
Emit(e, matches) ==
    /\ stream' = [stream EXCEPT ![e] = Yield(@, matches)]
    /\ out' = IF entry = "Extractor" THEN ExtractorYield(out, matches) ELSE out

VilkaStep ==
    /\ pc = VILKA
    /\ i <= Len(findall(VILKA, text))
    /\ LET match == findall(VILKA, text)[i]
       IN  /\ vilkaFact' = <<norm_vilka(match.fact)>>
           /\ IF is_ok_vilka(norm_vilka(match.fact)) = "UnboundLocalError"
              THEN pc' = "raised" /\ UNCHANGED <<i, stream, out>>
              ELSE Emit(VILKA, VilkaYields(match)) /\ i' = i + 1 /\ pc' = pc
    /\ UNCHANGED <<text, entry, nEmail, renorm, report, shared, suspended>>

VilkaReturn ==
    /\ pc = VILKA
    /\ i > Len(findall(VILKA, text))
    /\ pc' = AfterReturn(VILKA)
    /\ i' = 1
    /\ UNCHANGED <<text, entry, stream, out, nEmail, renorm, vilkaFact, report, shared, suspended>>

LocationStep ==
    /\ pc = LOCATION
    /\ i <= Len(findall(LOCATION, text))
    /\ Emit(LOCATION, LocationYields(findall(LOCATION, text)[i]))
    /\ i' = i + 1
    /\ UNCHANGED <<text, entry, pc, nEmail, renorm, vilkaFact, report, shared, suspended>>

LocationReturn ==
    /\ pc = LOCATION
    /\ i > Len(findall(LOCATION, text))
    /\ pc' = AfterReturn(LOCATION)
    /\ i' = 1
    /\ UNCHANGED <<text, entry, stream, out, nEmail, renorm, vilkaFact, report, shared, suspended>>

PositionStep ==
    /\ pc = POSITION
    /\ i <= Len(findall(POSITION, text))
    /\ Emit(POSITION, PositionYields(findall(POSITION, text)[i]))
    /\ i' = i + 1
    /\ UNCHANGED <<text, entry, pc, nEmail, renorm, vilkaFact, report, shared, suspended>>

PositionReturn ==
    /\ pc = POSITION
    /\ i > Len(findall(POSITION, text))
    /\ pc' = AfterReturn(POSITION)
    /\ i' = 1
    /\ UNCHANGED <<text, entry, stream, out, nEmail, renorm, vilkaFact, report, shared, suspended>>

CompanyEmailStep ==
    /\ pc = COMPANY
    /\ i <= Len(find_emails(text))
    /\ Emit(COMPANY, EmailYields(text, find_emails(text)[i]))
    /\ nEmail' = Len(stream'[COMPANY])
    /\ i' = i + 1
    /\ UNCHANGED <<text, entry, pc, renorm, vilkaFact, report, shared, suspended>>

CompanyEmailsDone ==
    /\ pc = COMPANY
    /\ i > Len(find_emails(text))
    /\ pc' = "company_dict"
    /\ i' = 1
    /\ UNCHANGED <<text, entry, stream, out, nEmail, renorm, vilkaFact, report, shared, suspended>>

CompanyDictStep ==
    /\ pc = "company_dict"
    /\ i <= Len(findall(COMPANY, text))
    /\ Emit(COMPANY, CompanyYields(findall(COMPANY, text)[i]))
    /\ i' = i + 1
    /\ UNCHANGED <<text, entry, pc, nEmail, renorm, vilkaFact, report, shared, suspended>>

CompanyReturn ==
    /\ pc = "company_dict"
    /\ i > Len(findall(COMPANY, text))
    /\ pc' = AfterReturn(COMPANY)
    /\ i' = 1
    /\ UNCHANGED <<text, entry, stream, out, nEmail, renorm, vilkaFact, report, shared, suspended>>

\* The (min, max, currency, tax) of a normalized range read as two bounds
AsVilka(fact) ==
    Vilka([amount |-> fact.min, currency |-> fact.currency,
           scale |-> NoScale, tax |-> fact.tax],
          [amount |-> fact.max, currency |-> fact.currency,
           scale |-> NoScale, tax |-> fact.tax])

\* norm_vilka run again on each range VilkaExtractor has yielded
Renormalize ==
    /\ pc = "done"
    /\ entry = "VilkaExtractor"
    /\ stream[VILKA] # <<>>
    /\ renorm' = [n \in 1..Len(stream[VILKA]) |->
                     norm_vilka(AsVilka(stream[VILKA][n].value))]
    /\ pc' = "renormalized"
    /\ UNCHANGED <<text, entry, i, stream, out, nEmail, vilkaFact, report, shared, suspended>>

\* ---------------------------------------------------------- workers

\* The locals of the generators of a call of Extractor: the text, the
\* extractor and the loop it is in, the position in that loop, the local fact,
\* and what it has yielded
Frame ==
    [text |-> text, entry |-> entry, pc |-> pc, i |-> i, vilkaFact |-> vilkaFact,
     stream |-> stream, out |-> out, nEmail |-> nEmail]

RestoreSharedIndex(frame) ==
    /\ text' = frame.text
    /\ entry' = frame.entry
    /\ pc' = frame.pc
    /\ i' = i
    /\ vilkaFact' = frame.vilkaFact
    /\ stream' = frame.stream
    /\ out' = frame.out
    /\ nEmail' = frame.nEmail

\* A suspended call goes on with its own locals
Restore(frame) ==
    /\ text' = frame.text
    /\ entry' = frame.entry
    /\ pc' = frame.pc
    /\ i' = frame.i
    /\ vilkaFact' = frame.vilkaFact
    /\ stream' = frame.stream
    /\ out' = frame.out
    /\ nEmail' = frame.nEmail

\* The worker that is running is suspended and the other one runs: the two
\* calls are on the same Extractor
Switch ==
    /\ suspended # <<>>
    /\ Restore(suspended)
    /\ suspended' = Frame
    /\ UNCHANGED <<renorm, report, shared>>

\* -------------------------------------------------------- reporting

\* [_.value for _ in matches if _.type == type]
ValuesOfType(matches, type) ==
    LET ms == SelectSeq(matches, LAMBDA m : m.type = type)
    IN  [n \in 1..Len(ms) |-> ms[n].value]

matches_city(matches) ==
    LET values == ValuesOfType(matches, LOCATION)
        cities == { values[n].city : n \in 1..Len(values) }
    IN  IF values = <<>>
        THEN UNKNOWN
        ELSE IF \E n \in 1..Len(values) : values[n].metro # None
             THEN MSK
             ELSE IF cities = {}
                  THEN UNKNOWN
                  ELSE IF MSK \in cities
                       THEN MSK
                       ELSE IF SPB \in cities THEN SPB ELSE Other

GRADES_ORDER == <<INTERN, JUNIOR, MIDDLE, SENIOR, LEAD>>

\* The grades of the Position matches that have one, in the order of their
\* first occurrence
RECURSIVE GradesSeen(_, _)
GradesSeen(matches, n) ==
    IF n = 0
    THEN <<>>
    ELSE LET seen == GradesSeen(matches, n - 1)
             m    == matches[n]
         IN  IF /\ m.type = POSITION
                /\ m.value.grade # None
                /\ \A k \in 1..Len(seen) : seen[k] # m.value.grade
             THEN Append(seen, m.value.grade)
             ELSE seen

matches_grades_by_occurrence(matches) == GradesSeen(matches, Len(matches))

\* The set of grades sorted by their index in GRADES_ORDER: the entries of
\* GRADES_ORDER that are in the set
matches_grades(matches) ==
    LET seen   == GradesSeen(matches, Len(matches))
        grades == { seen[n] : n \in 1..Len(seen) }
    IN  SelectSeq(GRADES_ORDER, LAMBDA g : g \in grades)

\* The dict min_vilkas after the first n matches: a function on its keys
RECURSIVE min_vilkas(_, _)
min_vilkas(matches, n) ==
    IF n = 0
    THEN <<>>
    ELSE LET d == min_vilkas(matches, n - 1)
             m == matches[n]
         IN  IF m.type = VILKA
             THEN [k \in DOMAIN d \cup {m.value.min} |->
                      IF k = m.value.min THEN m.value ELSE d[k]]
             ELSE d

RECURSIVE min_vilkas_first_wins(_, _)
min_vilkas_first_wins(matches, n) ==
    IF n = 0
    THEN <<>>
    ELSE LET d == min_vilkas_first_wins(matches, n - 1)
             m == matches[n]
         IN  IF m.type = VILKA
             THEN [k \in DOMAIN d \cup {m.value.min} |->
                      IF k \in DOMAIN d THEN d[k] ELSE m.value]
             ELSE d

\* sorted(keys), for numbers
RECURSIVE sorted(_)
sorted(keys) ==
    IF keys = {}
    THEN <<>>
    ELSE LET least == CHOOSE k \in keys : \A other \in keys : Leq(k, other)
         IN  <<least>> \o sorted(keys \ {least})

matches_vilkas_first_wins(matches) ==
    LET d    == min_vilkas_first_wins(matches, Len(matches))
        keys == sorted(DOMAIN d)
    IN  [n \in 1..Len(keys) |-> d[keys[n]]]

matches_vilkas(matches) ==
    LET d    == min_vilkas(matches, Len(matches))
        keys == sorted(DOMAIN d)
    IN  [n \in 1..Len(keys) |-> d[keys[n]]]

\* (1 - 0.13) * value, in exact arithmetic; value is below 10^9
minus_ndfl(value) == Num(87 * value.hi * 10000 + (87 * value.lo) \div 100)

\* zip(vilkas, grades)
zip(vilkas, grades) ==
    LET n == IF Len(vilkas) < Len(grades) THEN Len(vilkas) ELSE Len(grades)
    IN  [k \in 1..n |-> <<vilkas[k], grades[k]>>]

\* The pairs (vilka, grade) the loop body of plot_grade_vilka goes through
\* for one message: none when it continues to the next message
GradeVilkaPairs(matches) ==
    IF matches_city(matches) # MSK
    THEN <<>>
    ELSE LET grades == matches_grades(matches)
         IN  IF grades = <<>>
             THEN <<>>
             ELSE LET vilkas == matches_vilkas(matches)
                  IN  IF Len(grades) # Len(vilkas)
                      THEN <<>>
                      ELSE zip(vilkas, grades)

\* What one message appends to data[date] in the panel of GRADE
GradeVilkaData(matches, GRADE) ==
    LET pairs == SelectSeq(GradeVilkaPairs(matches),
                           LAMBDA p : p[2] = GRADE /\ p[1].currency = RUB)
    IN  [n \in 1..Len(pairs) |->
            IF pairs[n][1].tax = GROSS
            THEN <<minus_ndfl(pairs[n][1].min), minus_ndfl(pairs[n][1].max)>>
            ELSE <<pairs[n][1].min, pairs[n][1].max>>]

\* The reporting code is given the matches of a message once Extractor has
\* yielded them all
Reported(op, result) ==
    /\ pc = "done"
    /\ entry = "Extractor"
    /\ report' = [op |-> op, result |-> result]
    /\ pc' = "reported"
    /\ UNCHANGED <<text, entry, i, stream, out, nEmail, renorm, vilkaFact, shared, suspended>>

MatchesCity == Reported("matches_city", matches_city(out))

MatchesGrades == Reported("matches_grades", matches_grades(out))

MatchesVilkas == Reported("matches_vilkas", matches_vilkas(out))

\* One message of the loop of plot_grade_vilka
PlotGradeVilka ==
    Reported("plot_grade_vilka",
             [pairs |-> GradeVilkaPairs(out),
              data  |-> [GRADE \in {JUNIOR, MIDDLE, SENIOR} |-> GradeVilkaData(out, GRADE)]])

\* ---------------------------------------------------- specifications

Start(t, e, at) ==
    /\ text = t
    /\ entry = e
    /\ pc = at
    /\ i = 1
    /\ stream = [x \in {VILKA, LOCATION, POSITION, COMPANY} |-> <<>>]
    /\ out = <<>>
    /\ nEmail = 0
    /\ renorm = <<>>
    /\ vilkaFact = <<>>
    /\ report = <<>>
    /\ shared = [extractors |-> extractors]
    /\ suspended = <<>>

\* Extractor()(text)
Init == \E t \in SeqsUpTo(Vocabulary, MaxSegs) : Start(t, "Extractor", extractors[1])

Next ==
    \/ VilkaStep
    \/ VilkaReturn
    \/ LocationStep
    \/ LocationReturn
    \/ PositionStep
    \/ PositionReturn
    \/ CompanyEmailStep
    \/ CompanyEmailsDone
    \/ CompanyDictStep
    \/ CompanyReturn

Spec == Init /\ [][Next]_vars

\* The amounts INT and FLOAT can interpret, around the thresholds of
\* norm_vilka and is_ok_vilka; 2.5 and 0.5 are FLOATs
Amounts ==
    { Num(n * Unit) : n \in {19, 20, 100, 600, 601, 1000, 10000, 10001} }
    \cup { Num(2500), Num(500) }

Bounds ==
    [amount : Amounts, currency : {None, RUB, USD, EUR, GBP},
     scale : {NoScale, K, M}, tax : {None, NET, GROSS}]

\* VilkaExtractor()(text) on a text that is one salary range
InitNorm ==
    \/ \E min \in Bounds, max \in Bounds :
          Start(<<VilkaLine("range", 7, min, max)>>, "VilkaExtractor", VILKA)
    \/ \E line \in VilkaLines :
          Start(<<line>>, "VilkaExtractor", VILKA)

NextNorm ==
    \/ VilkaStep
    \/ VilkaReturn
    \/ Renormalize

SpecNorm == InitNorm /\ [][NextNorm]_vars

\* CompanyExtractor()(text)
InitCompany ==
    \E t \in SeqsUpTo(CompanyVocabulary, MaxCompanySegs) :
        Start(t, "CompanyExtractor", COMPANY)

NextCompany ==
    \/ CompanyEmailStep
    \/ CompanyEmailsDone
    \/ CompanyDictStep
    \/ CompanyReturn

SpecCompany == InitCompany /\ [][NextCompany]_vars


\* Any of the calls above, run to its end: a generator that is being consumed
\* goes on to its next iteration, which is what weak fairness of Next says.
CallBounds ==
    [amount : {Num(5 * Unit), Num(100 * Unit)}, currency : {None, RUB, USD, EUR, GBP},
     scale : {NoScale, K}, tax : {None}]

InitCalls ==
    \/ \E t \in SeqsUpTo(Vocabulary, MaxCallSegs) : Start(t, "Extractor", extractors[1])
    \/ \E min \in CallBounds, max \in CallBounds :
          Start(<<VilkaLine("range", 7, min, max)>>, "VilkaExtractor", VILKA)
    \/ \E line \in CompanyVocabulary : Start(<<line>>, "CompanyExtractor", COMPANY)

SpecCalls == InitCalls /\ [][Next]_vars /\ WF_vars(Next)


\* Extractor()(text) on a message, and then the reporting code on its matches
InitReport ==
    \E t \in SeqsUpTo(ReportVocabulary, MaxReportSegs) :
        Start(t, "Extractor", extractors[1])

NextReport ==
    \/ Next
    \/ MatchesCity
    \/ MatchesGrades
    \/ MatchesVilkas
    \/ PlotGradeVilka

SpecReport == InitReport /\ [][NextReport]_vars

\* The lines of the messages of two workers
WorkerVocabulary ==
    { l \in Vocabulary : l.name \in {"$5k-$8k", "10 - 18", "ischem"} }
    \cup { MixedLine,
           EmailLine(<<"h", "r">>, <<>>, <<"t", "i", "n", "k", "o", "f", "f">>, <<"r", "u">>) }

\* Two workers call one Extractor, each on its message; one of them runs
InitWorkers ==
    \E t1 \in SeqsUpTo(WorkerVocabulary, MaxWorkerSegs),
       t2 \in SeqsUpTo(WorkerVocabulary, MaxWorkerSegs) :
        /\ text = t1
        /\ entry = "Extractor"
        /\ pc = extractors[1]
        /\ i = 1
        /\ stream = [x \in {VILKA, LOCATION, POSITION, COMPANY} |-> <<>>]
        /\ out = <<>>
        /\ nEmail = 0
        /\ renorm = <<>>
        /\ vilkaFact = <<>>
        /\ report = <<>>
        /\ shared = [extractors |-> extractors]
        /\ suspended =
              [text |-> t2, entry |-> "Extractor", pc |-> extractors[1], i |-> 1,
               vilkaFact |-> <<>>,
               stream |-> [x \in {VILKA, LOCATION, POSITION, COMPANY} |-> <<>>],
               out |-> <<>>, nEmail |-> 0]

NextWorkers ==
    \/ Next
    \/ Switch

SpecWorkers == InitWorkers /\ [][NextWorkers]_vars

\* ------------------------------------------------------------ claims

\* The Vilka that the last iteration of VilkaExtractor's loop normalized
LastRaw ==
    LET matches == findall(VILKA, text)
    IN  matches[IF pc = VILKA THEN i - 1 ELSE Len(matches)].fact

\* The plausibility window of a currency, as the claims state it
InWindow(f) ==
    IF f.currency = RUB
    THEN Leq(Num(20000 * Unit), f.min) /\ Leq(f.max, Num(600000 * Unit))
    ELSE Leq(Num(1000 * Unit), f.min) /\ Leq(f.max, Num(10000 * Unit))

\* C1: every salary range VilkaExtractor yields has min < max, a currency
\* among RUB, USD, EUR, GBP, a tax among net, gross, and lies inside the
\* plausibility window of its currency.
C1_SalaryRangeInvariant ==
    \A n \in 1..Len(stream[VILKA]) :
        LET f == stream[VILKA][n].value
        IN  /\ stream[VILKA][n].type = VILKA
            /\ Less(f.min, f.max)
            /\ f.currency \in {RUB, USD, EUR, GBP}
            /\ f.tax \in {NET, GROSS}
            /\ InWindow(f)

\* C1 witness: a range in pounds sterling has been yielded
C1_Witness ==
    /\ pc = "done"
    /\ Len(stream[VILKA]) = 1
    /\ stream[VILKA][1].value.currency = GBP

\* The scale words the two bounds carry
Carried(raw) == {raw.min.scale, raw.max.scale} \ {NoScale}

BareMin20To600(raw) ==
    Leq(Num(20 * Unit), raw.min.amount) /\ Leq(raw.min.amount, Num(600 * Unit))

Bare40To100 ==
    Vilka(Bound(40, None, NoScale, None), Bound(100, None, NoScale, None))

\* C2: when a bound carries a scale word, norm_vilka multiplies both bounds
\* by a scale carried; with no scale word and the raw min in [20, 600] it
\* multiplies both by 1000; otherwise it leaves both unchanged.  The bare
\* pair (40, 100) becomes (40000, 100000) RUB net and is yielded.
C2_ScaleRule ==
    vilkaFact # <<>> =>
        LET raw == LastRaw
            f   == vilkaFact[1]
        IN  /\ Carried(raw) # {} =>
                \E s \in Carried(raw) :
                    /\ f.min = Times(raw.min.amount, s)
                    /\ f.max = Times(raw.max.amount, s)
            /\ (Carried(raw) = {} /\ BareMin20To600(raw)) =>
                    /\ f.min = Times(raw.min.amount, 1000)
                    /\ f.max = Times(raw.max.amount, 1000)
            /\ (Carried(raw) = {} /\ ~BareMin20To600(raw)) =>
                    /\ f.min = raw.min.amount
                    /\ f.max = raw.max.amount
            /\ raw = Bare40To100 =>
                    /\ f = NormVilka(Num(40000 * Unit), Num(100000 * Unit), RUB, NET)
                    /\ Len(stream[VILKA]) = Len(findall(VILKA, text))
                    /\ stream[VILKA][Len(stream[VILKA])].value = f

\* C2 witness: the bare pair (40, 100) has been normalized and yielded
C2_Witness ==
    /\ vilkaFact # <<>>
    /\ LastRaw = Bare40To100
    /\ stream[VILKA] # <<>>

\* C3: the currency of the result is that of the min bound if set, else that
\* of the max bound if set, else RUB; its tax is that of the min bound if
\* set, else that of the max bound if set, else net; neither is ever unset.
C3_CurrencyTaxPrecedence ==
    vilkaFact # <<>> =>
        LET raw == LastRaw
            f   == vilkaFact[1]
        IN  /\ f.currency =
                 IF raw.min.currency # None THEN raw.min.currency
                 ELSE IF raw.max.currency # None THEN raw.max.currency
                 ELSE RUB
            /\ f.tax =
                 IF raw.min.tax # None THEN raw.min.tax
                 ELSE IF raw.max.tax # None THEN raw.max.tax
                 ELSE NET
            /\ f.currency # None
            /\ f.tax # None

\* C3 witness: the two bounds disagree on the currency and on the tax
C3_Witness ==
    /\ vilkaFact # <<>>
    /\ LastRaw.min.currency = EUR
    /\ LastRaw.max.currency = USD
    /\ LastRaw.min.tax = GROSS
    /\ LastRaw.max.tax = NET


\* A normalized range is valid, as the claims state it
Valid(f) == Less(f.min, f.max) /\ InWindow(f)

\* How many candidates the loop of VilkaExtractor has been through
VilkaProcessed ==
    IF pc = VILKA THEN i - 1 ELSE Len(findall(VILKA, text))

\* The candidates among the first n whose normalized value is valid, each as
\* the Match of its span and normalized value
RECURSIVE ValidAmong(_, _)
ValidAmong(matches, n) ==
    IF n = 0
    THEN <<>>
    ELSE LET f == norm_vilka(matches[n].fact)
         IN  ValidAmong(matches, n - 1)
             \o (IF Valid(f)
                 THEN <<Match(matches[n].span[1], matches[n].span[2], VILKA, f)>>
                 ELSE <<>>)

\* C4: VilkaExtractor yields a candidate if and only if its normalized value
\* is valid; an invalid candidate is left out without raising and the
\* candidates after it are still yielded.
C4_YieldedIffValid ==
    /\ pc # "raised"
    /\ stream[VILKA] = ValidAmong(findall(VILKA, text), VilkaProcessed)

\* C4 witness: the first candidate was rejected and the second was yielded
C4_Witness ==
    LET matches == findall(VILKA, text)
    IN  /\ pc = "done"
        /\ Len(matches) >= 2
        /\ ~Valid(norm_vilka(matches[1].fact))
        /\ Len(stream[VILKA]) >= 1
        /\ stream[VILKA][1].start = matches[2].span[1]

\* C5: norm_vilka applied to the (min, max, currency, tax) of a yielded range
\* returns that range.
C5_NormalizationIdempotent ==
    pc = "renormalized" =>
        /\ Len(renorm) = Len(stream[VILKA])
        /\ \A n \in 1..Len(renorm) : renorm[n] = stream[VILKA][n].value

\* C5 witness: a yielded range has been normalized again
C5_Witness ==
    /\ pc = "renormalized"
    /\ renorm # <<>>
    /\ renorm[1].currency = USD


\* The spans [start, stop) of two matches share a character
Overlap(a, b) == a.start < b.stop /\ b.start < a.stop

\* No two matches of a sequence overlap
NoOverlap(matches) ==
    \A a, b \in 1..Len(matches) : a < b => ~Overlap(matches[a], matches[b])

\* The matches of a sequence come by ascending start
Ordered(matches) ==
    \A a, b \in 1..Len(matches) : a < b => matches[a].start <= matches[b].start

\* The matches of CompanyExtractor that came from e-mail addresses, and those
\* that came from the dictionary
EmailDerived == SubSeq(stream[COMPANY], 1, nEmail)

DictDerived == SubSeq(stream[COMPANY], nEmail + 1, Len(stream[COMPANY]))

\* C6 as claimed: no two matches of one extractor overlap, an e-mail match
\* and a dictionary match of CompanyExtractor included.
C6_NoOverlapInAnyExtractor ==
    \A e \in {VILKA, LOCATION, POSITION, COMPANY} : NoOverlap(stream[e])

\* C6 as amended: no two matches of VilkaExtractor, of LocationExtractor or
\* of PositionExtractor overlap, nor do two e-mail matches or two dictionary
\* matches of CompanyExtractor.
C6_NoOverlapPerSource ==
    /\ \A e \in {VILKA, LOCATION, POSITION} : NoOverlap(stream[e])
    /\ NoOverlap(EmailDerived)
    /\ NoOverlap(DictDerived)

\* C6 witness: CompanyExtractor has yielded two e-mail matches and two
\* dictionary matches, and PositionExtractor two matches
C6_Witness ==
    /\ pc = "done"
    /\ Len(EmailDerived) >= 2
    /\ Len(DictDerived) >= 2
    /\ Len(stream[POSITION]) >= 2

\* C7 as claimed: in the stream of each extractor, CompanyExtractor
\* included, a match yielded earlier starts no later than one yielded later.
C7_OrderedInAnyExtractor ==
    \A e \in {VILKA, LOCATION, POSITION, COMPANY} : Ordered(stream[e])

\* C7 as amended: the streams of VilkaExtractor, LocationExtractor and
\* PositionExtractor are ordered by start; in the stream of CompanyExtractor
\* the e-mail matches are ordered among themselves and the dictionary matches
\* among themselves, the e-mail matches coming first.
C7_OrderedPerSource ==
    /\ \A e \in {VILKA, LOCATION, POSITION} : Ordered(stream[e])
    /\ Ordered(EmailDerived)
    /\ Ordered(DictDerived)
    /\ pc = COMPANY => DictDerived = <<>>

\* C7 witness: CompanyExtractor has yielded an e-mail match and then a
\* dictionary match that starts before it, and PositionExtractor two matches
C7_Witness ==
    /\ pc = "done"
    /\ Len(stream[POSITION]) >= 2
    /\ EmailDerived # <<>>
    /\ DictDerived # <<>>
    /\ DictDerived[1].start < EmailDerived[1].start

\* C8: what Extractor.__call__ has yielded is the concatenation of what the
\* four extractors have yielded, in the order salary range, location,
\* position, company.
C8_FacadeConcatenates ==
    out = stream[VILKA] \o stream[LOCATION] \o stream[POSITION] \o stream[COMPANY]

\* C8 witness: all four extractors have yielded and a later extractor's match
\* starts before an earlier extractor's
C8_Witness ==
    /\ pc = "done"
    /\ \A e \in {VILKA, LOCATION, POSITION, COMPANY} : stream[e] # <<>>
    /\ Len(out) >= 5
    /\ \E a, b \in 1..Len(out) : a < b /\ out[b].start < out[a].start


\* The e-mail addresses of the text, left to right, each with its span
Emails == MatchesFrom(EMAIL, text, 1, 0)

\* How many addresses the first loop of CompanyExtractor has been through
EmailsProcessed == IF pc = COMPANY THEN i - 1 ELSE Len(Emails)

\* The e-mail matches with exactly the span of an address
EmailMatchesAt(span) ==
    { n \in 1..Len(EmailDerived) :
        EmailDerived[n].start = span[1] /\ EmailDerived[n].stop = span[2] }

\* The domain of an address is blocklisted: lower-cased, and with a leading
\* "www." dropped, it is one of gmail.com, mail.ru, yandex.ru, mac.com
Blocklisted(address) ==
    LET domain == Lower(SubSeq(address, IndexOf(address, "@", 1) + 1, Len(address)))
    IN  \/ domain \in GENERIC_EMAIL_DOMAINS
        \/ \E d \in GENERIC_EMAIL_DOMAINS : domain = www \o d

gmail_com == <<"g", "m", "a", "i", "l", ".", "c", "o", "m">>

acme_io == <<"a", "c", "m", "e", ".", "i", "o">>

\* C9: for every address the e-mail loop has been through, CompanyExtractor
\* has yielded a Company match of exactly its span if and only if its
\* normalized domain is not blocklisted; no e-mail match carries a blocklisted
\* domain in any letter case; an address at gmail.com yields nothing and one
\* at acme.io yields acme.io.
C9_EmailBlocklist ==
    /\ \A n \in 1..EmailsProcessed :
         /\ Blocklisted(Emails[n].fact) <=> EmailMatchesAt(Emails[n].span) = {}
         /\ Cardinality(EmailMatchesAt(Emails[n].span)) <= 1
         /\ Lower(email_domain(Emails[n].fact)) = gmail_com
              => EmailMatchesAt(Emails[n].span) = {}
         /\ email_domain(Emails[n].fact) = acme_io
              => \E k \in EmailMatchesAt(Emails[n].span) :
                     EmailDerived[k].value = acme_io
    /\ \A k \in 1..Len(EmailDerived) :
         /\ EmailDerived[k].type = COMPANY
         /\ Lower(EmailDerived[k].value) \notin GENERIC_EMAIL_DOMAINS
         /\ EmailMatchesAt(<<EmailDerived[k].start, EmailDerived[k].stop>>) # {}
         /\ \E n \in 1..EmailsProcessed :
              Emails[n].span = <<EmailDerived[k].start, EmailDerived[k].stop>>

\* C9 witness: an address at GMail.com was passed over and an address at
\* acme.io was yielded after it
C9_Witness ==
    /\ pc = "done"
    /\ Len(Emails) = 2
    /\ email_domain(Emails[1].fact) = <<"G", "M", "a", "i", "l", ".", "c", "o", "m">>
    /\ email_domain(Emails[2].fact) = acme_io
    /\ Len(EmailDerived) = 1

\* C10 as claimed: no Company value that CompanyExtractor yields holds an
\* upper-case letter or starts with "www.".
C10_CompanyValueNormalized ==
    \A n \in 1..Len(stream[COMPANY]) :
        LET value == stream[COMPANY][n].value
        IN  /\ \A k \in 1..Len(value) : ~IsUpper(value[k])
            /\ ~StartsWith(value, www)


\* is_ok_vilka has returned a verdict for the range norm_vilka last produced
VerdictGiven ==
    vilkaFact # <<>> => is_ok_vilka(vilkaFact[1]) \in {"None", "True", "False"}

\* C11: a call of Extractor, of VilkaExtractor or of CompanyExtractor never
\* raises, is_ok_vilka returns a verdict for every range norm_vilka produces,
\* and the call comes to its end, whatever the text: empty, without a match,
\* or with every salary candidate rejected.
C11_CallsReturn ==
    /\ [](pc # "raised" /\ VerdictGiven)
    /\ <>(pc = "done")

\* C11 witness: the facade has returned an empty stream for a text whose
\* salary candidates were all rejected
C11_Witness ==
    /\ pc = "done"
    /\ entry = "Extractor"
    /\ findall(VILKA, text) # <<>>
    /\ out = <<>>


\* The literal scenarios: the name of the line and the range it is to give
Scenarios ==
    { <<"ot 60K do 300K gryaznymi",
        NormVilka(Num(60000 * Unit), Num(300000 * Unit), RUB, GROSS)>>,
      <<"$5k-$8k",
        NormVilka(Num(5000 * Unit), Num(8000 * Unit), USD, NET)>>,
      <<"150-250 t.r.",
        NormVilka(Num(150000 * Unit), Num(250000 * Unit), RUB, NET)>> }

\* C12: VilkaExtractor run on "ot 60K do 300K gryaznymi" yields exactly one
\* range, 60000..300000 rub gross; on "$5k-$8k" exactly one, 5000..8000 usd
\* net; on "150-250 t.r." exactly one, 150000..250000 rub net, the scale and
\* the currency of the max bound applying to both bounds.  Each match spans
\* the whole line.
C12_LiteralScenarios ==
    \A sc \in Scenarios :
        (Len(text) = 1 /\ text[1].name = sc[1] /\ pc \in {"done", "renormalized"}) =>
            stream[VILKA] = <<Match(0, text[1].len, VILKA, sc[2])>>

\* C12 witness: the call on "150-250 t.r." has returned
C12_Witness ==
    /\ pc = "done"
    /\ Len(text) = 1
    /\ text[1].name = "150-250 t.r."
    /\ Len(stream[VILKA]) = 1


\* plot_grade_vilka has been through the message
GradeVilkaDone == pc = "reported" /\ report.op = "plot_grade_vilka"

\* The grade matches and the salary-range matches of the message, each in
\* their order of occurrence in the match stream
GradeMatches == SelectSeq(out, LAMBDA m : m.type = POSITION /\ m.value.grade # None)

VilkaMatches == SelectSeq(out, LAMBDA m : m.type = VILKA)

\* C13 as claimed: when the message has as many grade matches as salary-range
\* matches, the i-th grade match is paired with the i-th salary-range match,
\* by order of occurrence; when the numbers differ nothing is paired.
C13_PairedByOccurrence ==
    (GradeVilkaDone /\ matches_city(out) = MSK) =>
        IF Len(GradeMatches) = Len(VilkaMatches)
        THEN report.result.pairs =
                [n \in 1..Len(GradeMatches) |->
                    <<VilkaMatches[n].value, GradeMatches[n].value.grade>>]
        ELSE report.result.pairs = <<>>

\* The distinct grades of the message and the distinct mins of its ranges
GradeSet == { GradeMatches[n].value.grade : n \in 1..Len(GradeMatches) }

MinSet == { VilkaMatches[n].value.min : n \in 1..Len(VilkaMatches) }

Seniority(grade) == CHOOSE k \in 1..Len(GRADES_ORDER) : GRADES_ORDER[k] = grade

\* The last salary-range match with a given min
LastWithMin(min) ==
    LET n == CHOOSE k \in 1..Len(VilkaMatches) :
                 /\ VilkaMatches[k].value.min = min
                 /\ \A later \in (k + 1)..Len(VilkaMatches) :
                        VilkaMatches[later].value.min # min
    IN  VilkaMatches[n].value

\* C13 as amended: for a message whose city is Moskva, the distinct grades
\* taken by seniority are paired with the salary ranges taken by ascending
\* min, one range per distinct min (the last match with it), when there are as
\* many distinct grades as distinct mins and at least one; otherwise nothing
\* is paired.  A message of another city pairs nothing.
C13_PairedByRank ==
    GradeVilkaDone =>
        LET pairs == report.result.pairs
        IN  IF /\ matches_city(out) = MSK
               /\ GradeSet # {}
               /\ Cardinality(GradeSet) = Cardinality(MinSet)
            THEN /\ Len(pairs) = Cardinality(GradeSet)
                 /\ \A k \in 1..Len(pairs) :
                      /\ pairs[k][2] \in GradeSet
                      /\ Cardinality({ g \in GradeSet :
                             Seniority(g) < Seniority(pairs[k][2]) }) = k - 1
                      /\ pairs[k][1].min \in MinSet
                      /\ Cardinality({ m \in MinSet : Less(m, pairs[k][1].min) }) = k - 1
                      /\ pairs[k][1] = LastWithMin(pairs[k][1].min)
            ELSE pairs = <<>>

\* C13 witness: two grades were paired with two ranges, the senior grade and
\* the higher range each occurring first in the message
C13_Witness ==
    /\ GradeVilkaDone
    /\ Len(report.result.pairs) = 2
    /\ GradeMatches[1].value.grade = SENIOR
    /\ Less(VilkaMatches[2].value.min, VilkaMatches[1].value.min)


\* The fields of a Location that are set
FieldsSet(location) ==
    { f \in {"city", "metro", "remote"} : location[f] # None }

\* C14: every match LocationExtractor yields is a Location with exactly one
\* of city, metro, remote set.
C14_LocationOneField ==
    \A n \in 1..Len(stream[LOCATION]) :
        /\ stream[LOCATION][n].type = LOCATION
        /\ Cardinality(FieldsSet(stream[LOCATION][n].value)) = 1

\* C14 witness: LocationExtractor has yielded a city, a metro station and
\* remote work
C14_Witness ==
    /\ pc = "done"
    /\ Len(stream[LOCATION]) = 3
    /\ \A f \in {"city", "metro", "remote"} :
          \E n \in 1..3 : FieldsSet(stream[LOCATION][n].value) = {f}


\* What the loop of each extractor yields when it runs alone through the
\* first n of its items
RECURSIVE VilkaAlone(_, _)
VilkaAlone(matches, n) ==
    IF n = 0 THEN <<>> ELSE Yield(VilkaAlone(matches, n - 1), VilkaYields(matches[n]))

RECURSIVE LocationAlone(_, _)
LocationAlone(matches, n) ==
    IF n = 0 THEN <<>> ELSE Yield(LocationAlone(matches, n - 1), LocationYields(matches[n]))

RECURSIVE PositionAlone(_, _)
PositionAlone(matches, n) ==
    IF n = 0 THEN <<>> ELSE Yield(PositionAlone(matches, n - 1), PositionYields(matches[n]))

RECURSIVE EmailsAlone(_, _, _)
EmailsAlone(t, spans, n) ==
    IF n = 0 THEN <<>> ELSE Yield(EmailsAlone(t, spans, n - 1), EmailYields(t, spans[n]))

RECURSIVE CompanyAlone(_, _)
CompanyAlone(matches, n) ==
    IF n = 0 THEN <<>> ELSE Yield(CompanyAlone(matches, n - 1), CompanyYields(matches[n]))

\* The match stream of Extractor()(t) when no other call is under way
ExtractorAlone(t) ==
    VilkaAlone(findall(VILKA, t), Len(findall(VILKA, t)))
    \o LocationAlone(findall(LOCATION, t), Len(findall(LOCATION, t)))
    \o PositionAlone(findall(POSITION, t), Len(findall(POSITION, t)))
    \o EmailsAlone(t, find_emails(t), Len(find_emails(t)))
    \o CompanyAlone(findall(COMPANY, t), Len(findall(COMPANY, t)))

\* A call is on its way to the stream it gives alone, and has it when done
AsAlone(frame) ==
    LET alone == ExtractorAlone(frame.text)
    IN  /\ Len(frame.out) <= Len(alone)
        /\ frame.out = SubSeq(alone, 1, Len(frame.out))
        /\ frame.pc = "done" => frame.out = alone
        /\ frame.pc # "raised"

\* C15: when two workers call one Extractor on their messages, their steps
\* interleaved in any way, each call yields the stream it yields alone, and
\* the attributes of the Extractor stay as constructed.
C15_CallsIndependent ==
    /\ shared = [extractors |-> extractors]
    /\ AsAlone(Frame)
    /\ suspended # <<>> => AsAlone(suspended)

\* C15 witness: the two calls are on different messages and both under way,
\* in different extractors, each having yielded
C15_Witness ==
    /\ suspended # <<>>
    /\ text # suspended.text
    /\ pc = POSITION
    /\ suspended.pc = "company_dict"
    /\ out # <<>>
    /\ suspended.out # <<>>
    /\ i = 2


\* C16: norm_vilka multiplies min and max by one and the same factor, which is
\* 1, 1000 or 1000000, so the normalized min is below the normalized max
\* exactly when the raw min is below the raw max; when both bounds carry a
\* scale word and the two differ, the factor is the scale of the min bound.
C16_SameFactor ==
    vilkaFact # <<>> =>
        LET raw == LastRaw
            f   == vilkaFact[1]
        IN  /\ \E factor \in {1, 1000, 1000000} :
                  /\ f.min = Times(raw.min.amount, factor)
                  /\ f.max = Times(raw.max.amount, factor)
            /\ Less(f.min, f.max) <=> Less(raw.min.amount, raw.max.amount)
            /\ f.min = f.max <=> raw.min.amount = raw.max.amount
            /\ Cardinality(Carried(raw)) = 2 =>
                  /\ f.min = Times(raw.min.amount, raw.min.scale)
                  /\ f.max = Times(raw.max.amount, raw.min.scale)

\* C16 witness: the min bound carries K and the max bound M, and the raw min
\* is below the raw max
C16_Witness ==
    /\ vilkaFact # <<>>
    /\ LastRaw.min.scale = K
    /\ LastRaw.max.scale = M
    /\ Less(LastRaw.min.amount, LastRaw.max.amount)


\* The Locations of the message
Locations == ValuesOfType(out, LOCATION)

\* C17 as claimed: matches_city returns UNKNOWN when no Location of the
\* message has a city or a metro, remote-only Locations included; otherwise
\* MSK if a Location has a metro or the city Moskva, else SPB if one has the
\* city Sankt-Peterburg, else OTHER.
C17_MatchesCity ==
    (pc = "reported" /\ report.op = "matches_city") =>
        report.result =
            IF \A n \in 1..Len(Locations) :
                   Locations[n].city = None /\ Locations[n].metro = None
            THEN UNKNOWN
            ELSE IF \E n \in 1..Len(Locations) :
                        Locations[n].metro # None \/ Locations[n].city = MSK
                 THEN MSK
                 ELSE IF \E n \in 1..Len(Locations) : Locations[n].city = SPB
                      THEN SPB
                      ELSE Other


\* C18: matches_vilkas returns the salary ranges of the message strictly
\* ascending by min, exactly one for every distinct min among the VILKA
\* matches, which is the last match in stream order with that min; matches of
\* other types play no part.
C18_VilkasByMin ==
    (pc = "reported" /\ report.op = "matches_vilkas") =>
        LET vilkas == report.result
        IN  /\ \A a, b \in 1..Len(vilkas) : a < b => Less(vilkas[a].min, vilkas[b].min)
            /\ { vilkas[n].min : n \in 1..Len(vilkas) } = MinSet
            /\ Len(vilkas) = Cardinality(MinSet)
            /\ \A n \in 1..Len(vilkas) : vilkas[n] = LastWithMin(vilkas[n].min)

\* C18 witness: of three ranges, met in descending order of min beside a
\* match of another type, the last two share their min and differ in max
C18_Witness ==
    /\ pc = "reported"
    /\ report.op = "matches_vilkas"
    /\ Len(VilkaMatches) = 3
    /\ Len(out) > 3
    /\ Less(VilkaMatches[2].value.min, VilkaMatches[1].value.min)
    /\ VilkaMatches[2].value.min = VilkaMatches[3].value.min
    /\ VilkaMatches[2].value # VilkaMatches[3].value
    /\ Len(report.result) = 2


====
